---- MODULE Spec2Model ----
(***************************************************************************)
(* Model of fs/fsopen.c: the filesystem-context file descriptor.           *)
(*                                                                         *)
(* One fs_context is followed from its construction by fsopen() or         *)
(* fspick() to its release.  Contexts share no state with each other (each *)
(* has its own phase, log and uapi_mutex), so one context is the general   *)
(* case; the threads of the model share its descriptor.                    *)
(*                                                                         *)
(* A system call is a sequence of steps of the calling thread.  The steps  *)
(* are cut where the code touches state other threads can see: the         *)
(* descriptor table, uapi_mutex, fc->phase and the log.  Code between two  *)
(* such places is local to the thread and runs inside one step.            *)
(***************************************************************************)
EXTENDS Integers, Sequences, FiniteSets, TLC

(***************************************************************************)
(* Bounds of the model.                                                    *)
(***************************************************************************)
NumThreads == 2
\* log2 of the number of slots of fc_log.buffer (the ring is a power of two)
LogBits == 1
\* log2 of the modulus of the head and tail counters; larger than LogBits
CtrBits == 1
\* longest log message, in bytes; messages are told apart by their length
MaxMsgLen == 2
\* lines the driver logs in the life of a context
MaxLines == 1
\* lines logged in the life of a context when the log is followed by itself
MaxPushes == 6

Threads == 1..NumThreads
NoThread == 0

logsize == 2 ^ LogBits
CtrMod == 2 ^ (LogBits + CtrBits)
Msgs == 1..MaxMsgLen
NoMsg == 0
\* strlen() of a message
strlen(m) == m

(***************************************************************************)
(* enum fs_context_phase, as used by fsopen.c                              *)
(***************************************************************************)
FS_CONTEXT_CREATE_PARAMS == "CreateParams"
FS_CONTEXT_CREATING == "Creating"
FS_CONTEXT_AWAITING_MOUNT == "AwaitingMount"
FS_CONTEXT_AWAITING_RECONF == "AwaitingReconf"
FS_CONTEXT_RECONF_PARAMS == "ReconfParams"
FS_CONTEXT_FAILED == "Failed"
NoPhase == "NoPhase"

Phases ==
  { FS_CONTEXT_CREATE_PARAMS, FS_CONTEXT_CREATING, FS_CONTEXT_AWAITING_MOUNT,
    FS_CONTEXT_AWAITING_RECONF, FS_CONTEXT_RECONF_PARAMS, FS_CONTEXT_FAILED }

(***************************************************************************)
(* enum fsconfig_command; "fsconfig_unknown" stands for any value of cmd   *)
(* outside the enumeration.                                                *)
(***************************************************************************)
ParamCmds == { "fsconfig_set_flag", "fsconfig_set_string", "fsconfig_set_binary" }
PathCmds == { "fsconfig_set_path", "fsconfig_set_path_empty", "fsconfig_set_fd" }
TriggerCmds == { "fsconfig_cmd_create", "fsconfig_cmd_reconfigure" }
KnownCmds == ParamCmds \cup PathCmds \cup TriggerCmds
Cmds == KnownCmds \cup { "fsconfig_unknown" }
NoCmd == "none"

(***************************************************************************)
(* enum fs_context_purpose, as far as fsopen.c passes it to                *)
(* vfs_new_fs_context().                                                   *)
(***************************************************************************)
FS_CONTEXT_FOR_USER_MOUNT == "for_user_mount"
FS_CONTEXT_FOR_RECONFIGURE == "for_reconfigure"
NoPurpose == "none"

(***************************************************************************)
(* Return values: 0 and the negative errno values the code returns.        *)
(***************************************************************************)
OK == "0"
EPERM == "-EPERM"
EINVAL == "-EINVAL"
EBUSY == "-EBUSY"
EOPNOTSUPP == "-EOPNOTSUPP"
EBADF == "-EBADF"
EINTR == "-EINTR"
EFAULT == "-EFAULT"
ENOMEM == "-ENOMEM"
ENODEV == "-ENODEV"
ENODATA == "-ENODATA"
EMSGSIZE == "-EMSGSIZE"
ENOENT == "-ENOENT"
\* the error of a collaborator (driver, security module, tree construction)
ECOLLAB == "-EIO"
NoRet == "none"

(***************************************************************************)
(* Arguments the callers pass.                                             *)
(***************************************************************************)
\* descriptors: negative, the fscontext descriptor, a descriptor of another
\* kind of file, a number that is not open
FdNeg == -1
FdCtx == 3
FdOther == 4
FdClosed == 5
FdArgs == { FdNeg, FdCtx, FdOther, FdClosed }
AT_FDCWD == -100
MaxBinary == 1024 * 1024
\* values of aux on either side of each test the command's shape makes
AuxArgs(c) ==
  CASE c = "fsconfig_set_binary" -> { 0, 1, MaxBinary, MaxBinary + 1 }
    [] c \in { "fsconfig_set_path", "fsconfig_set_path_empty" } -> { AT_FDCWD, -1, 0 }
    [] c = "fsconfig_set_fd" -> { -1, 0 }
    [] OTHER -> { 0, 1 }
\* key strings: the carved-out "source" key and any other key; no key.
\* Only fsconfig_set_string looks at what the key says.
NoKey == "nokey"
KeyArgs(c) ==
  IF c = "fsconfig_set_string" THEN { "source", "ro", NoKey } ELSE { "ro", NoKey }
\* read() buffer sizes
ReadLens == 0..MaxMsgLen

VARIABLES
  \* the fs_context
  fcState,      \* "none" (not constructed), "live", "freed"
  usage,        \* reference count of the fs_context
  puts,         \* number of put_fs_context() calls made on it
  purpose,      \* fc->purpose, what the bound context was made for
  phase,        \* fc->phase
  mutex,        \* owner of fc->uapi_mutex, NoThread when unlocked
  serial,       \* fc->phase when the lock was last released (history)
  \* fc->log
  head, tail, buffer, need_free,
  logged,       \* lines the driver has logged so far (history)
  pending,      \* the lines taken into the ring and not yet popped, oldest
                \* first (history)
  \* the descriptor and its struct file
  fdOpen,       \* the descriptor is in the descriptor table
  fcount,       \* references on the struct file
  \* the threads
  pc, cmd, key, ret, fref, bufs,
  rlen, rp, rfree, ubuf,
  \* what the current call of a thread has done (history)
  phase0,       \* fc->phase when vfs_fsconfig() was entered
  calls,        \* collaborators called by vfs_fsconfig(), in order
  args          \* what sys_fsconfig() was called with, beside cmd

fcVars == << fcState, usage, puts, purpose, phase, mutex, serial >>
logVars == << head, tail, buffer, need_free, logged, pending >>
fileVars == << fdOpen, fcount >>
callVars == << cmd, key, ret, fref, bufs >>
readVars == << rlen, rp, rfree, ubuf >>
histVars == << phase0, calls, args >>
vars ==
  << fcState, usage, puts, purpose, phase, mutex, serial, head, tail, buffer,
     need_free, logged, pending, fdOpen, fcount, pc, cmd, key, ret, fref, bufs, rlen, rp, rfree, ubuf,
     phase0, calls, args >>

Slots == 0..(logsize - 1)

\* the arguments of a call of sys_fsconfig(): the descriptor, the key,
\* whether a value is passed, aux, and the copy from user space that faults
NoArgs == << >>
Args(fd, k, hasValue, aux, fault) ==
  [fd |-> fd, key |-> k, hasValue |-> hasValue, aux |-> aux, fault |-> fault]

Init ==
  /\ fcState = "none"
  /\ usage = 0
  /\ puts = 0
  /\ purpose = NoPurpose
  /\ phase = NoPhase
  /\ mutex = NoThread
  /\ serial = NoPhase
  /\ head = 0
  /\ tail = 0
  /\ buffer = [i \in Slots |-> NoMsg]
  /\ need_free = {}
  /\ logged = 0
  /\ pending = << >>
  /\ fdOpen = FALSE
  /\ fcount = 0
  /\ pc = [t \in Threads |-> "idle"]
  /\ cmd = [t \in Threads |-> NoCmd]
  /\ key = [t \in Threads |-> NoKey]
  /\ ret = [t \in Threads |-> NoRet]
  /\ fref = [t \in Threads |-> FALSE]
  /\ bufs = [t \in Threads |-> {}]
  /\ rlen = [t \in Threads |-> 0]
  /\ rp = [t \in Threads |-> NoMsg]
  /\ rfree = [t \in Threads |-> FALSE]
  /\ ubuf = [t \in Threads |-> NoMsg]
  /\ phase0 = [t \in Threads |-> NoPhase]
  /\ calls = [t \in Threads |-> << >>]
  /\ args = [t \in Threads |-> NoArgs]

(***************************************************************************)
(* Helpers on the per-thread variables.                                    *)
(***************************************************************************)
Set(f, t, v) == [f EXCEPT ![t] = v]

\* the thread returns r to user space: the system call is over
Finish(t, r) ==
  /\ pc' = Set(pc, t, "done")
  /\ ret' = Set(ret, t, r)

(***************************************************************************)
(* Reference counting: put_fs_context() drops one reference and frees the  *)
(* context with the last one; fput() drops one reference on the file and   *)
(* calls ->release() with the last one.                                    *)
(***************************************************************************)
\* the context after n calls of put_fs_context(), n <= usage
UsageAfterPut(u, n) == u - n

PutFsContext(n) ==
  /\ puts' = puts + n
  /\ usage' = UsageAfterPut(usage, n)
  /\ fcState' = IF UsageAfterPut(usage, n) = 0 THEN "freed" ELSE fcState
  /\ phase' = IF UsageAfterPut(usage, n) = 0 THEN NoPhase ELSE phase
  /\ serial' = IF UsageAfterPut(usage, n) = 0 THEN NoPhase ELSE serial

\* fscontext_release() that forgets the context
fscontext_release_NoPut == UNCHANGED << puts, usage, fcState, phase, serial >>

\* fscontext_release(): file->private_data is the context; one put
fscontext_release == PutFsContext(1)

Fput ==
  /\ fcount' = fcount - 1
  /\ UNCHANGED purpose
  /\ IF fcount = 1
       THEN fscontext_release
       ELSE UNCHANGED << puts, usage, fcState, phase, serial >>

(***************************************************************************)
(* fsopen() and fspick(): construct the context and bind it to a           *)
(* descriptor.  Nothing another thread can see exists before               *)
(* anon_inode_getfd() installs the descriptor, so each call is one step;   *)
(* `o` is the place where the call fails, or "ok".                         *)
(***************************************************************************)
OpenFailsEarly == { EPERM, EINVAL, EFAULT, ENODEV, ENOENT, EOPNOTSUPP, ENOMEM }

\* put_fs_context() calls on the path through err_fc (log allocation failed)
PutsOnLogFailure == 1
\* put_fs_context() calls when anon_inode_getfd() fails in fscontext_create_fd()
PutsOnFdFailure == 1

\* a context constructed with one reference, in phase p, and put n times
ConstructAndPut(p, n) ==
  /\ puts' = puts + n
  /\ usage' = 1 - n
  /\ fcState' = IF n = 0 THEN "live" ELSE "freed"
  /\ phase' = IF n = 0 THEN p ELSE NoPhase
  /\ serial' = IF n = 0 THEN p ELSE NoPhase

\* the part common to fsopen() and fspick(): from vfs_new_fs_context() on
OpenContext(t, purp, p, o) ==
  /\ pc[t] = "idle"
  /\ fcState = "none"
  /\ purpose' = IF o = "ok" THEN purp ELSE purpose
  /\ \/ /\ o \in OpenFailsEarly          \* no context was constructed
        /\ Finish(t, o)
        /\ UNCHANGED << fcState, usage, puts, phase, serial, fdOpen, fcount >>
     \/ /\ o = "log"                     \* fscontext_alloc_log(): -ENOMEM
        /\ ConstructAndPut(p, PutsOnLogFailure)
        /\ Finish(t, ENOMEM)
        /\ UNCHANGED << fdOpen, fcount >>
     \/ /\ o = "fd"                      \* anon_inode_getfd() failed
        /\ ConstructAndPut(p, PutsOnFdFailure)
        /\ Finish(t, ENOMEM)
        /\ UNCHANGED << fdOpen, fcount >>
     \/ /\ o = "ok"
        /\ ConstructAndPut(p, 0)
        /\ fdOpen' = TRUE
        /\ fcount' = 1
        /\ Finish(t, OK)
  /\ UNCHANGED << mutex, logVars, cmd, key, fref, bufs, readVars, histVars >>

\* -EPERM, -EINVAL (flags), -EFAULT (name), -ENODEV, -ENOMEM (context)
fsopen(t) ==
  \E o \in { EPERM, EINVAL, EFAULT, ENODEV, ENOMEM, "log", "fd", "ok" } :
    OpenContext(t, FS_CONTEXT_FOR_USER_MOUNT, FS_CONTEXT_CREATE_PARAMS, o)

\* -EPERM, -EINVAL (flags), -ENOENT (path), -EOPNOTSUPP (no ->reconfigure),
\* -ENOMEM (context)
fspick(t) ==
  \E o \in { EPERM, EINVAL, ENOENT, EOPNOTSUPP, ENOMEM, "log", "fd", "ok" } :
    OpenContext(t, FS_CONTEXT_FOR_RECONFIGURE, FS_CONTEXT_RECONF_PARAMS, o)

(***************************************************************************)
(* close() of the descriptor by one of the threads: the descriptor leaves  *)
(* the table and the table's reference on the file is dropped.             *)
(***************************************************************************)
Close(t) ==
  /\ pc[t] = "idle"
  /\ fdOpen
  /\ fdOpen' = FALSE
  /\ Fput
  /\ Finish(t, OK)
  /\ UNCHANGED << mutex, logVars, cmd, key, fref, bufs, readVars, histVars >>

\* the system call has returned: the thread's locals are dead
Reset(t) ==
  /\ pc' = Set(pc, t, "idle")
  /\ cmd' = Set(cmd, t, NoCmd)
  /\ key' = Set(key, t, NoKey)
  /\ ret' = Set(ret, t, NoRet)
  /\ rlen' = Set(rlen, t, 0)
  /\ rp' = Set(rp, t, NoMsg)
  /\ rfree' = Set(rfree, t, FALSE)
  /\ ubuf' = Set(ubuf, t, NoMsg)
  /\ phase0' = Set(phase0, t, NoPhase)
  /\ calls' = Set(calls, t, << >>)
  /\ args' = Set(args, t, NoArgs)

\* the return to user space of a call that ended before it took a reference
Return(t) ==
  /\ pc[t] = "done"
  /\ Reset(t)
  /\ UNCHANGED << fcVars, logVars, fileVars, fref, bufs >>

(***************************************************************************)
(* sys_fsconfig(), up to the lock.                                         *)
(***************************************************************************)
\* the shape check of the arguments: 0, or the error returned before fdget()
ShapeError(fd, c, k, hasValue, aux) ==
  LET hasKey == k # NoKey
  IN  IF fd < 0 THEN EINVAL
      ELSE CASE c = "fsconfig_set_flag" ->
                  IF ~hasKey \/ hasValue \/ aux # 0 THEN EINVAL ELSE OK
             [] c = "fsconfig_set_string" ->
                  IF ~hasKey \/ ~hasValue \/ aux # 0 THEN EINVAL ELSE OK
             [] c = "fsconfig_set_binary" ->
                  IF ~hasKey \/ ~hasValue \/ aux <= 0 \/ aux > 1024 * 1024
                  THEN EINVAL ELSE OK
             [] c \in { "fsconfig_set_path", "fsconfig_set_path_empty" } ->
                  IF ~hasKey \/ ~hasValue \/ (aux # AT_FDCWD /\ aux < 0)
                  THEN EINVAL ELSE OK
             [] c = "fsconfig_set_fd" ->
                  IF ~hasKey \/ hasValue \/ aux < 0 THEN EINVAL ELSE OK
             [] c \in { "fsconfig_cmd_create", "fsconfig_cmd_reconfigure" } ->
                  IF hasKey \/ hasValue \/ aux # 0 THEN EINVAL ELSE OK
             [] OTHER -> EOPNOTSUPP

\* FdError with one error for every descriptor that is not an fscontext
FdError_AllBadf(fd) ==
  IF fd # FdCtx \/ ~fdOpen THEN EBADF ELSE OK

\* fdget() and the f_op test: 0, or the error
FdError(fd) ==
  IF fd = FdClosed \/ (fd = FdCtx /\ ~fdOpen) THEN EBADF
  ELSE IF fd # FdCtx THEN EINVAL
  ELSE OK

\* the buffers the call owns once the copies from user space succeeded
OwnedBuffers(c, k) ==
  (IF k # NoKey THEN { "key" } ELSE {})
    \cup (IF c \in { "fsconfig_set_string", "fsconfig_set_binary" }
          THEN { "value" } ELSE {})

\* CopyError without the second switch's case for the path and fd commands
CopyError_PathsGoOn(c, k, fault) ==
  IF k # NoKey /\ fault = "key" THEN EFAULT
  ELSE IF c \in { "fsconfig_set_string", "fsconfig_set_binary" }
          /\ fault = "value" THEN EFAULT
  ELSE OK

\* CopyError with fsconfig_set_fd missing from the second switch's case
CopyError_FdGoesOn(c, k, fault) ==
  IF k # NoKey /\ fault = "key" THEN EFAULT
  ELSE IF c \in { "fsconfig_set_string", "fsconfig_set_binary" }
          /\ fault = "value" THEN EFAULT
  ELSE IF c \in { "fsconfig_set_path", "fsconfig_set_path_empty" }
  THEN EOPNOTSUPP
  ELSE OK

\* the copies and the second switch: 0, or the error taken to out_key/out_f;
\* `fault` is the copy from user space that fails, if any
CopyError(c, k, fault) ==
  IF k # NoKey /\ fault = "key" THEN EFAULT
  ELSE IF c \in { "fsconfig_set_string", "fsconfig_set_binary" }
          /\ fault = "value" THEN EFAULT
  ELSE IF c \in PathCmds THEN EOPNOTSUPP
  ELSE OK

\* the copies from user space that can fail in a call with these arguments
Faults(fd, c, k, hasValue, aux) ==
  IF ShapeError(fd, c, k, hasValue, aux) # OK \/ FdError(fd) # OK
  THEN { "none" }
  ELSE { "none", "key", "value" }

\* EntryError with the descriptor resolved before the arguments are looked at
EntryError_FdFirst(fd, c, k, hasValue, aux, fault) ==
  IF fd >= 0 /\ FdError(fd) # OK THEN FdError(fd)
  ELSE IF ShapeError(fd, c, k, hasValue, aux) # OK
  THEN ShapeError(fd, c, k, hasValue, aux)
  ELSE CopyError(c, k, fault)

\* 0, or the error of a call that ends before mutex_lock_interruptible()
EntryError(fd, c, k, hasValue, aux, fault) ==
  IF ShapeError(fd, c, k, hasValue, aux) # OK
  THEN ShapeError(fd, c, k, hasValue, aux)
  ELSE IF FdError(fd) # OK THEN FdError(fd)
  ELSE CopyError(c, k, fault)

\* One step: everything before mutex_lock_interruptible().  A call that
\* fails after fdget() has freed its copies and dropped its file reference
\* again (out_key, out_f) when it returns.
fsconfig(t, fd, c, k, hasValue, aux, fault) ==
  LET e == EntryError(fd, c, k, hasValue, aux, fault)
  IN  /\ pc[t] = "idle"
      /\ cmd' = Set(cmd, t, c)
      /\ IF e # OK
         THEN /\ Finish(t, e)
              /\ UNCHANGED << key, fref, bufs, fcount >>
         ELSE /\ pc' = Set(pc, t, "lock")
              /\ key' = Set(key, t, k)
              /\ fref' = Set(fref, t, TRUE)
              /\ fcount' = fcount + 1
              /\ bufs' = Set(bufs, t, OwnedBuffers(c, k))
              /\ UNCHANGED ret
      /\ UNCHANGED << fcVars, logVars, fdOpen, readVars, phase0, calls >>

\* a call of fsconfig() with any arguments
sys_fsconfig(t) ==
  \E fd \in FdArgs, c \in Cmds, hasValue \in BOOLEAN :
  \E k \in KeyArgs(c), aux \in AuxArgs(c) :
  \E fault \in Faults(fd, c, k, hasValue, aux) :
    /\ fsconfig(t, fd, c, k, hasValue, aux, fault)
    /\ UNCHANGED args

\* the same, with the arguments of the call kept until it returns to user
\* space; one call at a time is followed in this way, and a second one while
\* the first is building the tree
sys_fsconfig_args(t) ==
  /\ \A u \in Threads : args[u] = NoArgs \/ pc[u] = "get_tree"
  /\ \E fd \in FdArgs, c \in Cmds, hasValue \in BOOLEAN :
     \E k \in KeyArgs(c), aux \in AuxArgs(c) :
     \E fault \in Faults(fd, c, k, hasValue, aux) :
       /\ fsconfig(t, fd, c, k, hasValue, aux, fault)
       /\ args' = Set(args, t, Args(fd, k, hasValue, aux, fault))

(***************************************************************************)
(* mutex_lock_interruptible(&fc->uapi_mutex), in sys_fsconfig() and in     *)
(* fscontext_read(): the lock is taken when it is free; a thread that has  *)
(* to wait gives up with -EINTR when a signal reaches it.                  *)
(***************************************************************************)
MutexFree == mutex = NoThread

\* the place after the lock, in either caller
AfterLock(l) == IF l = "lock" THEN "dispatch" ELSE "rpop"

\* AfterInterrupt with sys_fsconfig() going on without the lock
AfterInterrupt_ConfigGoesOn(l) == IF l = "lock" THEN "dispatch" ELSE "out"

\* AfterInterrupt with fscontext_read() going on without the lock
AfterInterrupt_ReadGoesOn(l) == IF l = "rlock" THEN "rpop" ELSE "out"

\* the place of a caller whose lock wait was interrupted: sys_fsconfig()
\* goes on to free its copies, fscontext_read() returns at once
AfterInterrupt(l) == "out"

mutex_lock(t) ==
  /\ pc[t] \in { "lock", "rlock" }
  /\ MutexFree
  /\ mutex' = t
  /\ pc' = Set(pc, t, AfterLock(pc[t]))
  /\ UNCHANGED << fcState, usage, puts, purpose, phase, serial, logVars, fileVars, callVars,
                  readVars, histVars >>

mutex_lock_interrupted(t) ==
  /\ pc[t] \in { "lock", "rlock" }
  /\ ~MutexFree
  /\ ret' = Set(ret, t, EINTR)
  /\ pc' = Set(pc, t, AfterInterrupt(pc[t]))
  /\ UNCHANGED << fcVars, logVars, fileVars, cmd, key, fref, bufs, readVars,
                  histVars >>

(***************************************************************************)
(* The collaborators vfs_fsconfig() calls: ->init_fs_context(),            *)
(* security_fs_context_alloc(), vfs_set_fs_source(), vfs_parse_fs_option() *)
(* and vfs_get_tree().  Each returns 0 or an error of its own choosing     *)
(* (which may be -EINTR) and may log one message; none touches fc->phase.  *)
(***************************************************************************)
CollabErrors == { "-EIO", EINTR }

\* what a collaborator may return; of the five, tree construction is the
\* one that sleeps and can come back interrupted
Results(fn) ==
  IF fn = "vfs_get_tree" THEN { OK } \cup CollabErrors ELSE { OK, "-EIO" }

\* what a collaborator may log: nothing, or one more line
Lines == IF logged < MaxLines THEN Msgs \cup { NoMsg } ELSE { NoMsg }

\* number of unread lines in the ring
Pending(h, tl) == (h - tl) % CtrMod

\* SlotOf with a mask one bit short
SlotOf_ShortMask(n) == n % (logsize \div 2)

\* the slot a counter value points at: counter & (logsize - 1)
SlotOf(n) == n % logsize

\* whether a message of the model is an owned (kmalloc'ed) buffer
Owned(m) == m % 2 = 0

\* the ring has no free slot
LogFull == Pending(head, tail) >= logsize

\* the driver logs message m under the caller's lock; the new line is
\* dropped when the ring is full
LogPush(m) ==
  /\ logged' = IF m = NoMsg THEN logged ELSE logged + 1
  /\ IF m = NoMsg \/ LogFull
     THEN UNCHANGED << head, tail, buffer, need_free, pending >>
     ELSE /\ buffer' = [buffer EXCEPT ![SlotOf(head)] = m]
          /\ pending' = Append(pending, m)
          /\ need_free' = IF Owned(m) THEN need_free \cup { SlotOf(head) }
                                      ELSE need_free \ { SlotOf(head) }
          /\ head' = (head + 1) % CtrMod
          /\ tail' = tail

(***************************************************************************)
(* vfs_fsconfig(), called with uapi_mutex held.                            *)
(***************************************************************************)
\* NeedsReinit taking a failed context for one that awaits reconfiguration
NeedsReinit_AlsoFailed(p) ==
  p \in { FS_CONTEXT_AWAITING_RECONF, FS_CONTEXT_FAILED }

\* the context awaits reconfiguration and has to be reinitialised
NeedsReinit(p) == p = FS_CONTEXT_AWAITING_RECONF

\* PhaseAfterReinitError with the assignment of FS_CONTEXT_FAILED left out
PhaseAfterReinitError_Unset == FS_CONTEXT_AWAITING_RECONF

\* the phase after a failed collaborator of the reinitialisation
PhaseAfterReinitError == FS_CONTEXT_FAILED

\* the phase after the reinitialisation went through
PhaseAfterReinit == FS_CONTEXT_RECONF_PARAMS

\* The head of vfs_fsconfig(), one collaborator a step: at "dispatch" the
\* test of the phase and ->init_fs_context() (hasInit: the driver has
\* one), at "security" security_fs_context_alloc().
vfs_fsconfig_reinit(t) ==
  /\ pc[t] \in { "dispatch", "security" }
  /\ IF pc[t] = "dispatch"
     THEN /\ phase0' = Set(phase0, t, phase)
          /\ IF NeedsReinit(phase)
             THEN \E hasInit \in BOOLEAN, ri \in Results("init_fs_context") :
                    IF hasInit
                    THEN /\ calls' = Set(calls, t, << "init_fs_context" >>)
                         /\ IF ri # OK
                            THEN /\ phase' = PhaseAfterReinitError
                                 /\ ret' = Set(ret, t, ri)
                                 /\ pc' = Set(pc, t, "unlock")
                            ELSE /\ pc' = Set(pc, t, "security")
                                 /\ UNCHANGED << phase, ret >>
                    ELSE /\ pc' = Set(pc, t, "security")
                         /\ UNCHANGED << phase, ret, calls >>
             ELSE /\ pc' = Set(pc, t, "switch")
                  /\ UNCHANGED << phase, ret, calls >>
     ELSE /\ calls' = Set(calls, t, Append(calls[t], "security_fs_context_alloc"))
          /\ UNCHANGED phase0
          /\ \E rs \in Results("security_fs_context_alloc") :
               IF rs # OK
               THEN /\ phase' = PhaseAfterReinitError
                    /\ ret' = Set(ret, t, rs)
                    /\ pc' = Set(pc, t, "unlock")
               ELSE /\ phase' = PhaseAfterReinit
                    /\ pc' = Set(pc, t, "switch")
                    /\ UNCHANGED ret
  /\ UNCHANGED << fcState, usage, puts, purpose, mutex, serial, logVars, fileVars, cmd, key,
                  fref, bufs, readVars, args >>

\* ParamPhase with the test too weak: a created context still takes parameters
ParamPhase_AlsoAwaitingMount(p) ==
  p \in { FS_CONTEXT_CREATE_PARAMS, FS_CONTEXT_RECONF_PARAMS,
          FS_CONTEXT_AWAITING_MOUNT }

\* the phases in which parameters are accepted
ParamPhase(p) == p \in { FS_CONTEXT_CREATE_PARAMS, FS_CONTEXT_RECONF_PARAMS }

\* CreatePhase with the test too weak: creation also from a reconfigure context
CreatePhase_AlsoReconf(p) ==
  p \in { FS_CONTEXT_CREATE_PARAMS, FS_CONTEXT_RECONF_PARAMS }

\* the phase from which creation may be triggered
CreatePhase(p) == p = FS_CONTEXT_CREATE_PARAMS

\* the switch on cmd: the error it returns at once, or what it goes on to do
Switch(p, c, k) ==
  CASE c = "fsconfig_set_string" ->
         IF ~ParamPhase(p) THEN EBUSY
         ELSE IF k = "source" THEN "vfs_set_fs_source"
         ELSE "vfs_parse_fs_option"
    [] c \in { "fsconfig_set_flag", "fsconfig_set_binary" } ->
         IF ~ParamPhase(p) THEN EBUSY ELSE "vfs_parse_fs_option"
    [] c \in PathCmds ->
         IF ~ParamPhase(p) THEN EBUSY ELSE "BUG"
    [] c = "fsconfig_cmd_create" ->
         IF ~CreatePhase(p) THEN EBUSY ELSE "vfs_get_tree"
    [] OTHER -> EOPNOTSUPP

SwitchErrors == { EBUSY, EOPNOTSUPP }

vfs_fsconfig_switch(t) ==
  /\ pc[t] = "switch"
  /\ LET s == Switch(phase, cmd[t], key[t])
     IN  \/ /\ s \in SwitchErrors \cup { "BUG" }
            \* BUG() stops the thread where it is, with the lock held
            /\ ret' = IF s = "BUG" THEN ret ELSE Set(ret, t, s)
            /\ pc' = Set(pc, t, IF s = "BUG" THEN "BUG" ELSE "unlock")
            /\ UNCHANGED << phase, logVars, calls >>
         \/ /\ s \in { "vfs_set_fs_source", "vfs_parse_fs_option" }
            /\ \E r \in Results(s), m \in Lines :
                 /\ ret' = Set(ret, t, r)
                 /\ LogPush(m)
            /\ calls' = Set(calls, t, Append(calls[t], s))
            /\ pc' = Set(pc, t, "unlock")
            /\ UNCHANGED phase
         \/ /\ s = "vfs_get_tree"
            /\ phase' = FS_CONTEXT_CREATING
            /\ pc' = Set(pc, t, "get_tree")
            /\ UNCHANGED << ret, logVars, calls >>
  /\ UNCHANGED << fcState, usage, puts, purpose, mutex, serial, fileVars, cmd, key, fref, bufs,
                  readVars, phase0, args >>

\* PhaseAfterTree with the else branch left out: a failure leaves Creating
PhaseAfterTree_NoElse(r) ==
  IF r = OK THEN FS_CONTEXT_AWAITING_MOUNT ELSE FS_CONTEXT_CREATING

\* the phase trigger-create ends in
\* PhaseAfterTree with a failed creation open to another attempt
PhaseAfterTree_BackToParams(r) ==
  IF r = OK THEN FS_CONTEXT_AWAITING_MOUNT ELSE FS_CONTEXT_CREATE_PARAMS

\* PhaseAfterTree with the phase left as it is when the tree was built
PhaseAfterTree_OkStays(r) ==
  IF r = OK THEN FS_CONTEXT_CREATING ELSE FS_CONTEXT_FAILED

PhaseAfterTree(r) ==
  IF r = OK THEN FS_CONTEXT_AWAITING_MOUNT ELSE FS_CONTEXT_FAILED

vfs_get_tree(t) ==
  /\ pc[t] = "get_tree"
  /\ \E r \in Results("vfs_get_tree"), m \in Lines :
       /\ phase' = PhaseAfterTree(r)
       /\ ret' = Set(ret, t, r)
       /\ LogPush(m)
  /\ calls' = Set(calls, t, Append(calls[t], "vfs_get_tree"))
  /\ pc' = Set(pc, t, "unlock")
  /\ UNCHANGED << fcState, usage, puts, purpose, mutex, serial, fileVars, cmd, key, fref, bufs,
                  readVars, phase0, args >>

\* mutex_unlock(&fc->uapi_mutex) in sys_fsconfig(): vfs_fsconfig() has
\* returned ret; the record of what it did ends with the critical section
mutex_unlock(t) ==
  /\ pc[t] = "unlock"
  /\ mutex' = NoThread
  /\ pc' = Set(pc, t, "out")
  /\ cmd' = Set(cmd, t, NoCmd)
  /\ key' = Set(key, t, NoKey)
  /\ phase0' = Set(phase0, t, NoPhase)
  /\ calls' = Set(calls, t, << >>)
  /\ args' = Set(args, t, NoArgs)
  /\ serial' = phase
  /\ UNCHANGED << fcState, usage, puts, purpose, phase, logVars, fileVars, ret, fref,
                  bufs, readVars >>

\* the end of sys_fsconfig() and of read(): the copies are freed, fdput(),
\* and the return to user space with ret
sys_exit(t) ==
  /\ pc[t] = "out"
  /\ bufs' = Set(bufs, t, {})
  /\ fref' = Set(fref, t, FALSE)
  /\ Fput
  /\ Reset(t)
  /\ UNCHANGED << mutex, logVars, fdOpen >>

(***************************************************************************)
(* fscontext_read(): read() on the descriptor.  The VFS resolves the       *)
(* descriptor and holds a reference on the file for the call.              *)
(***************************************************************************)
fscontext_read(t) ==
  /\ pc[t] = "idle"
  /\ fdOpen
  /\ \E len \in ReadLens : rlen' = Set(rlen, t, len)
  /\ fref' = Set(fref, t, TRUE)
  /\ fcount' = fcount + 1
  /\ cmd' = Set(cmd, t, "read")
  /\ pc' = Set(pc, t, "rlock")
  /\ UNCHANGED << fcVars, logVars, fdOpen, key, ret, bufs, rp, rfree, ubuf,
                  histVars >>

\* LogEmpty with the test left out
LogEmpty_Never == FALSE

\* LogEmpty with an order test in the place of the equality
LogEmpty_HeadBehind == head < tail

\* the log is empty
LogEmpty == head = tail

\* TailAfterPop with the increment left out
TailAfterPop_Stays(tl) == tl

\* log->tail++
TailAfterPop(tl) == (tl + 1) % CtrMod

\* under the lock: the empty test, and the pop of the oldest line
fscontext_read_pop(t) ==
  /\ pc[t] = "rpop"
  /\ IF LogEmpty
     THEN /\ ret' = Set(ret, t, ENODATA)
          /\ UNCHANGED << logVars, rp, rfree >>
     ELSE LET index == SlotOf(tail)
          IN  /\ rp' = Set(rp, t, buffer[index])
              /\ rfree' = Set(rfree, t, index \in need_free)
              /\ buffer' = [buffer EXCEPT ![index] = NoMsg]
              /\ need_free' = need_free \ { index }
              /\ tail' = TailAfterPop(tail)
              /\ pending' = IF pending = << >> THEN pending ELSE Tail(pending)
              /\ UNCHANGED << head, logged, ret >>
  /\ pc' = Set(pc, t, "runlock")
  /\ UNCHANGED << fcVars, fileVars, cmd, key, fref, bufs, rlen, ubuf, histVars >>

\* HolderAfterPop with the mutex_unlock() of the empty path left out
HolderAfterPop_EmptyKeepsLock(t, empty) == IF empty THEN t ELSE NoThread

\* the holder of the lock when fscontext_read() leaves its critical section:
\* mutex_unlock() on the empty path and after the pop
HolderAfterPop(t, empty) == NoThread

\* mutex_unlock() on either path of fscontext_read()
fscontext_read_unlock(t) ==
  /\ pc[t] = "runlock"
  /\ mutex' = HolderAfterPop(t, ret[t] = ENODATA)
  /\ pc' = Set(pc, t, IF ret[t] = ENODATA THEN "out" ELSE "rcopy")
  /\ serial' = phase
  /\ UNCHANGED << fcState, usage, puts, purpose, phase, logVars, fileVars, callVars,
                  readVars, histVars >>

\* after the lock: the size test, the copy to the caller, the kfree();
\* a successful read returns strlen(p), the length of the line in ubuf
fscontext_read_copy(t) ==
  /\ pc[t] = "rcopy"
  /\ \E fault \in BOOLEAN :
       IF strlen(rp[t]) > rlen[t]
       THEN /\ ret' = Set(ret, t, EMSGSIZE)
            /\ UNCHANGED ubuf
       ELSE IF fault
       THEN /\ ret' = Set(ret, t, EFAULT)
            /\ UNCHANGED ubuf
       ELSE /\ ret' = Set(ret, t, OK)
            /\ ubuf' = Set(ubuf, t, rp[t])
  /\ pc' = Set(pc, t, "out")
  /\ UNCHANGED << fcVars, logVars, fileVars, cmd, key, fref, bufs, rlen, rp,
                  rfree, histVars >>

(***************************************************************************)
(* Outside fsopen.c: the rest of the kernel puts a context whose mount or  *)
(* reconfiguration is complete into the phase that awaits the next         *)
(* reconfiguration.  It does so under uapi_mutex.                          *)
(***************************************************************************)
ExternalReconfPending ==
  /\ fcState = "live"
  /\ MutexFree
  /\ phase \in { FS_CONTEXT_AWAITING_MOUNT, FS_CONTEXT_RECONF_PARAMS }
  /\ phase' = FS_CONTEXT_AWAITING_RECONF
  /\ serial' = FS_CONTEXT_AWAITING_RECONF
  /\ UNCHANGED << fcState, usage, puts, purpose, mutex, logVars, fileVars, pc, callVars,
                  readVars, histVars >>

(***************************************************************************)
(* Outside fsopen.c: a line is logged.  The drivers log from inside the    *)
(* collaborators of vfs_fsconfig(), with uapi_mutex held by the configure  *)
(* call, so no pop of a read comes between the test for a free slot and    *)
(* the store.  logfc(t) is such a configure call of thread t taken as one  *)
(* step, its arguments and result left aside.                              *)
(***************************************************************************)
logfc(t) ==
  /\ pc[t] = "idle"
  /\ fcState = "live"
  /\ fdOpen
  /\ MutexFree
  /\ logged < MaxPushes
  /\ \E m \in Msgs : LogPush(m)
  /\ UNCHANGED << fcVars, fileVars, pc, callVars, readVars, histVars >>

(***************************************************************************)
(* The specifications.  Spec is fsopen.c alone; SpecExt adds the external  *)
(* transition to FS_CONTEXT_AWAITING_RECONF.                               *)
(***************************************************************************)
\* a thread enters the kernel, or returns from a call that held nothing
Enter(t) ==
  \/ fsopen(t)
  \/ fspick(t)
  \/ Close(t)
  \/ Return(t)
  \/ sys_fsconfig(t)
  \/ fscontext_read(t)

\* the steps of a call that is past the lock, or past the wait for it
InCall(t) ==
  \/ vfs_fsconfig_reinit(t)
  \/ vfs_fsconfig_switch(t)
  \/ vfs_get_tree(t)
  \/ mutex_unlock(t)
  \/ fscontext_read_pop(t)
  \/ fscontext_read_unlock(t)
  \/ fscontext_read_copy(t)
  \/ sys_exit(t)

Step(t) ==
  \/ Enter(t)
  \/ mutex_lock(t)
  \/ mutex_lock_interrupted(t)
  \/ InCall(t)

\* no signal is delivered: a waiter waits until it has the lock
StepNoSignal(t) ==
  \/ Enter(t)
  \/ mutex_lock(t)
  \/ InCall(t)

\* the log followed by itself: lines are logged and read
StepLog(t) ==
  \/ fsopen(t)
  \/ Close(t)
  \/ Return(t)
  \/ logfc(t)
  \/ fscontext_read(t)
  \/ mutex_lock(t)
  \/ mutex_lock_interrupted(t)
  \/ fscontext_read_pop(t)
  \/ fscontext_read_unlock(t)
  \/ fscontext_read_copy(t)
  \/ sys_exit(t)

Next == \E t \in Threads : Step(t)

\* configure calls followed with their arguments; no reads
StepArgs(t) ==
  \/ fsopen(t)
  \/ fspick(t)
  \/ Close(t)
  \/ Return(t)
  \/ sys_fsconfig_args(t)
  \/ mutex_lock(t)
  \/ mutex_lock_interrupted(t)
  \/ vfs_fsconfig_reinit(t)
  \/ vfs_fsconfig_switch(t)
  \/ vfs_get_tree(t)
  \/ mutex_unlock(t)
  \/ sys_exit(t)

NextLog == \E t \in Threads : StepLog(t)

NextArgs == \E t \in Threads : StepArgs(t)

NextExt == Next \/ ExternalReconfPending

NextNoSignal == \E t \in Threads : StepNoSignal(t)

Spec == Init /\ [][Next]_vars

SpecExt == Init /\ [][NextExt]_vars

SpecLog == Init /\ [][NextLog]_vars

SpecArgs == Init /\ [][NextArgs]_vars

\* A thread inside a call is scheduled again, and the mutex hands the lock
\* to every waiter in its turn.  When user space makes its calls is up to it.
SpecFair ==
  /\ Init
  /\ [][NextNoSignal]_vars
  /\ \A t \in Threads : WF_vars(InCall(t)) /\ SF_vars(mutex_lock(t))

TypeOK ==
  /\ fcState \in { "none", "live", "freed" }
  /\ purpose \in { NoPurpose, FS_CONTEXT_FOR_USER_MOUNT, FS_CONTEXT_FOR_RECONFIGURE }
  /\ phase \in Phases \cup { NoPhase }
  /\ mutex \in Threads \cup { NoThread }
  /\ serial \in Phases \cup { NoPhase }
  /\ head \in 0..(CtrMod - 1)
  /\ tail \in 0..(CtrMod - 1)
  /\ buffer \in [Slots -> Msgs \cup { NoMsg }]
  /\ need_free \subseteq Slots
  /\ logged \in 0..(MaxLines + MaxPushes)
  /\ pending \in Seq(Msgs)
  /\ Len(pending) <= logsize
  /\ fcount \in 0..(NumThreads + 1)
  /\ \A t \in Threads :
       \/ args[t] = NoArgs
       \/ /\ DOMAIN args[t] = { "fd", "key", "hasValue", "aux", "fault" }
          /\ args[t].fd \in FdArgs
          /\ args[t].hasValue \in BOOLEAN
          /\ args[t].fault \in { "none", "key", "value" }
  /\ \A t \in Threads : ret[t] \in
       { NoRet, OK, EPERM, EINVAL, EBUSY, EOPNOTSUPP, EBADF, EINTR, EFAULT,
         ENOMEM, ENODEV, ENODATA, EMSGSIZE, ENOENT } \cup CollabErrors

(***************************************************************************)
(* What the claims speak of.                                               *)
(***************************************************************************)
\* vfs_fsconfig() has returned ret[t] to sys_fsconfig(), which still holds
\* the lock: phase0[t] is the phase the call was dispatched in, phase the
\* phase it leaves, calls[t] the collaborators it called
Returned(t) == pc[t] = "unlock"

\* the last collaborator a call called, "none" when it called none
LastCall(t) == IF calls[t] = << >> THEN "none" ELSE calls[t][Len(calls[t])]

Called(t, fn) == \E i \in 1..Len(calls[t]) : calls[t][i] = fn

BusyPhases ==
  { FS_CONTEXT_CREATING, FS_CONTEXT_AWAITING_MOUNT, FS_CONTEXT_FAILED }

(***************************************************************************)
(* C1, as stated: a parameter-setting call (set-flag, set-string,          *)
(* set-binary) dispatched in a phase other than CreateParams and           *)
(* ReconfParams (Creating, AwaitingMount, AwaitingReconf, Failed) returns  *)
(* the busy error and leaves the phase as it was; so it succeeds only from *)
(* CreateParams or ReconfParams.                                           *)
(***************************************************************************)
C1_ParamsOnlyInParamPhases ==
  \A t \in Threads :
    (Returned(t) /\ cmd[t] \in ParamCmds
       /\ phase0[t] \notin { FS_CONTEXT_CREATE_PARAMS, FS_CONTEXT_RECONF_PARAMS })
      => (ret[t] = EBUSY /\ phase = phase0[t])

(***************************************************************************)
(* C1, amended: a parameter-setting call dispatched in Creating,           *)
(* AwaitingMount or Failed returns the busy error, calls no collaborator   *)
(* and leaves the phase as it was.  Dispatched in AwaitingReconf it is     *)
(* first reinitialised: it ends in ReconfParams with the parameter handed  *)
(* to the parser, or in Failed with the error of the reinitialisation.  A  *)
(* parameter-setting call succeeds only if it was dispatched in            *)
(* CreateParams, ReconfParams or AwaitingReconf.                           *)
(***************************************************************************)
C1_ParamsBusyOutsideParamPhases ==
  \A t \in Threads :
    (Returned(t) /\ cmd[t] \in ParamCmds) =>
      /\ phase0[t] \in BusyPhases =>
           (ret[t] = EBUSY /\ phase = phase0[t] /\ calls[t] = << >>)
      /\ phase0[t] = FS_CONTEXT_AWAITING_RECONF =>
           \/ /\ phase = FS_CONTEXT_RECONF_PARAMS
              /\ LastCall(t) \in { "vfs_parse_fs_option", "vfs_set_fs_source" }
           \/ /\ phase = FS_CONTEXT_FAILED
              /\ ret[t] \in CollabErrors
              /\ LastCall(t) \in { "init_fs_context", "security_fs_context_alloc" }
      /\ ret[t] = OK =>
           phase0[t] \in { FS_CONTEXT_CREATE_PARAMS, FS_CONTEXT_RECONF_PARAMS,
                           FS_CONTEXT_AWAITING_RECONF }

\* set-flag after a successful trigger-create: busy
C1_Witness ==
  \E t \in Threads :
    /\ Returned(t)
    /\ cmd[t] = "fsconfig_set_flag"
    /\ phase0[t] = FS_CONTEXT_AWAITING_MOUNT
    /\ ret[t] = EBUSY
    /\ phase = FS_CONTEXT_AWAITING_MOUNT

(***************************************************************************)
(* C2, as stated: trigger-create dispatched in CreateParams sets the phase *)
(* to Creating, then calls tree construction, and ends in AwaitingMount    *)
(* with success or in Failed with the construction error; dispatched in    *)
(* any other phase it returns busy without calling tree construction.      *)
(***************************************************************************)
CreateFromCreateParams(t) ==
  /\ pc[t] = "get_tree" =>
       (phase = FS_CONTEXT_CREATING /\ ~Called(t, "vfs_get_tree")
          /\ phase0[t] = FS_CONTEXT_CREATE_PARAMS)
  /\ (Returned(t) /\ cmd[t] = "fsconfig_cmd_create"
        /\ phase0[t] = FS_CONTEXT_CREATE_PARAMS) =>
       /\ calls[t] = << "vfs_get_tree" >>
       /\ \/ ret[t] = OK /\ phase = FS_CONTEXT_AWAITING_MOUNT
          \/ ret[t] \in CollabErrors /\ phase = FS_CONTEXT_FAILED

C2_CreateOnlyFromCreateParams ==
  \A t \in Threads :
    /\ CreateFromCreateParams(t)
    /\ (Returned(t) /\ cmd[t] = "fsconfig_cmd_create"
          /\ phase0[t] # FS_CONTEXT_CREATE_PARAMS) =>
         (ret[t] = EBUSY /\ ~Called(t, "vfs_get_tree"))

(***************************************************************************)
(* C2, amended: as stated, except that trigger-create dispatched in        *)
(* AwaitingReconf returns the error of a failed reinitialisation (the      *)
(* phase then is Failed) instead of busy.  It calls tree construction from *)
(* no phase but CreateParams.                                              *)
(***************************************************************************)
C2_CreateFromCreateParamsElseNoTree ==
  \A t \in Threads :
    /\ CreateFromCreateParams(t)
    /\ (Returned(t) /\ cmd[t] = "fsconfig_cmd_create"
          /\ phase0[t] # FS_CONTEXT_CREATE_PARAMS) =>
         /\ ~Called(t, "vfs_get_tree")
         /\ \/ ret[t] = EBUSY
            \/ /\ phase0[t] = FS_CONTEXT_AWAITING_RECONF
               /\ phase = FS_CONTEXT_FAILED
               /\ ret[t] \in CollabErrors

\* a successful trigger-create
C2_Witness ==
  \E t \in Threads :
    /\ Returned(t)
    /\ cmd[t] = "fsconfig_cmd_create"
    /\ phase0[t] = FS_CONTEXT_CREATE_PARAMS
    /\ calls[t] = << "vfs_get_tree" >>
    /\ ret[t] = OK
    /\ phase = FS_CONTEXT_AWAITING_MOUNT
(***************************************************************************)
(* C3, as stated: every parameter-setting command, every path or           *)
(* descriptor command and every trigger, attempted on a context in         *)
(* Creating, AwaitingMount or Failed, fails with the busy error.  A        *)
(* well-formed path or descriptor command that fails otherwise than on its *)
(* arguments is one that was attempted.                                    *)
(***************************************************************************)
ArgumentErrors == { EINVAL, EBADF, EFAULT }

C3_AllBusyInBusyPhases ==
  \A t \in Threads :
    /\ (Returned(t) /\ phase0[t] \in BusyPhases) => ret[t] = EBUSY
    /\ (pc[t] = "done" /\ cmd[t] \in PathCmds /\ fcState = "live"
          /\ phase \in BusyPhases /\ ret[t] \notin ArgumentErrors)
         => ret[t] = EBUSY

(***************************************************************************)
(* C3, amended: on a context in Creating, AwaitingMount or Failed every    *)
(* command fails, calls no collaborator and leaves the phase as it was:    *)
(* set-flag, set-string, set-binary and trigger-create with the busy       *)
(* error, trigger-reconfigure with the busy or the unsupported-operation   *)
(* error.  The path and descriptor commands never reach the phase test:    *)
(* they fail before the lock is taken, with an argument error or with the  *)
(* unsupported-operation error.                                            *)
(***************************************************************************)
C3_AllFailInBusyPhases ==
  \A t \in Threads :
    /\ (Returned(t) /\ phase0[t] \in BusyPhases) =>
         /\ ret[t] \in SwitchErrors
         /\ cmd[t] # "fsconfig_cmd_reconfigure" => ret[t] = EBUSY
         /\ cmd[t] \in ParamCmds \cup TriggerCmds
         /\ phase = phase0[t]
         /\ calls[t] = << >>
    /\ pc[t] \notin { "idle", "done" } => cmd[t] \notin PathCmds
    /\ (pc[t] = "done" /\ cmd[t] \in PathCmds) =>
         ret[t] \in ArgumentErrors \cup { EOPNOTSUPP }

\* a second trigger-create
C3_Witness ==
  \E t \in Threads :
    /\ Returned(t)
    /\ cmd[t] = "fsconfig_cmd_create"
    /\ phase0[t] = FS_CONTEXT_AWAITING_MOUNT
    /\ ret[t] = EBUSY

(***************************************************************************)
(* C4: Failed is absorbing.  A context in Failed stays in Failed until it  *)
(* is released, and no parameter-setting or trigger call dispatched in     *)
(* Failed returns success.                                                 *)
(***************************************************************************)
FailedStays ==
  phase = FS_CONTEXT_FAILED =>
    \/ phase' = FS_CONTEXT_FAILED
    \/ phase' = NoPhase /\ fcState' = "freed"

C4_FailedAbsorbing ==
  /\ [][FailedStays]_vars
  /\ [](\A t \in Threads :
          (Returned(t) /\ phase0[t] = FS_CONTEXT_FAILED) =>
            (ret[t] # OK /\ phase = FS_CONTEXT_FAILED))

\* set-string on a context whose creation failed
C4_Witness ==
  \E t \in Threads :
    /\ Returned(t)
    /\ cmd[t] = "fsconfig_set_string"
    /\ phase0[t] = FS_CONTEXT_FAILED
    /\ phase = FS_CONTEXT_FAILED
    /\ ret[t] = EBUSY

(***************************************************************************)
(* C5, as stated: trigger-reconfigure is legal exactly in ReconfParams: a  *)
(* call whose phase is ReconfParams when the command is examined is        *)
(* dispatched as a reconfigure trigger and not rejected by the switch; one *)
(* in any other phase returns the busy error.                              *)
(***************************************************************************)
\* the call got as far as the switch on the command
Examined(t) ==
  Returned(t) /\ ~(phase0[t] = FS_CONTEXT_AWAITING_RECONF
                     /\ phase = FS_CONTEXT_FAILED)

C5_ReconfigureExactlyInReconfParams ==
  \A t \in Threads :
    (Examined(t) /\ cmd[t] = "fsconfig_cmd_reconfigure") =>
      IF phase = FS_CONTEXT_RECONF_PARAMS
      THEN ret[t] \notin SwitchErrors
      ELSE ret[t] = EBUSY

(***************************************************************************)
(* C6: a call dispatched in AwaitingReconf is reinitialised before its     *)
(* command is processed, in this order: the filesystem's initialisation    *)
(* hook, if it has one; then the security check; then the phase becomes    *)
(* ReconfParams; then the command.  A failing hook or security check sets  *)
(* the phase to Failed and its error is returned, with nothing after it in *)
(* the order called.                                                       *)
(***************************************************************************)
ReinitCalls == { << "security_fs_context_alloc" >>,
                 << "init_fs_context", "security_fs_context_alloc" >> }

CommandCalls ==
  { << >>, << "vfs_parse_fs_option" >>, << "vfs_set_fs_source" >>,
    << "vfs_get_tree" >> }

C6_ReinitOrder ==
  \A t \in Threads :
    phase0[t] = FS_CONTEXT_AWAITING_RECONF =>
      /\ pc[t] = "security" =>
           /\ calls[t] \in { << >>, << "init_fs_context" >> }
           /\ phase = FS_CONTEXT_AWAITING_RECONF
      /\ pc[t] = "switch" =>
           (calls[t] \in ReinitCalls /\ phase = FS_CONTEXT_RECONF_PARAMS)
      /\ Returned(t) =>
           \/ /\ phase = FS_CONTEXT_FAILED
              /\ ret[t] \in CollabErrors
              /\ calls[t] \in ReinitCalls \cup { << "init_fs_context" >> }
           \/ /\ phase = FS_CONTEXT_RECONF_PARAMS
              /\ \E r \in ReinitCalls, c \in CommandCalls : calls[t] = r \o c
              /\ Switch(FS_CONTEXT_RECONF_PARAMS, cmd[t], key[t])
                   \in SwitchErrors => ret[t] \in SwitchErrors

\* hook, security check, ReconfParams, then the parameter
C6_Witness ==
  \E t \in Threads :
    /\ Returned(t)
    /\ phase0[t] = FS_CONTEXT_AWAITING_RECONF
    /\ calls[t] = << "init_fs_context", "security_fs_context_alloc",
                     "vfs_parse_fs_option" >>
    /\ phase = FS_CONTEXT_RECONF_PARAMS
    /\ ret[t] = OK

(***************************************************************************)
(* C7, as stated: a configure call that returns an error leaves the phase  *)
(* as it was when the call was dispatched, unless the error is that of the *)
(* driver's reinitialisation or of tree construction, which leave Failed.  *)
(***************************************************************************)
C7_ErrorsKeepPhaseButInitAndTree ==
  \A t \in Threads :
    (Returned(t) /\ ret[t] # OK) =>
      \/ phase = phase0[t]
      \/ /\ phase = FS_CONTEXT_FAILED
         /\ LastCall(t) \in { "init_fs_context", "vfs_get_tree" }

(***************************************************************************)
(* C7, amended: a configure call that returns an error leaves the phase as *)
(* it was when the call was dispatched, with these exceptions: a failure   *)
(* of the driver's reinitialisation, of the security check or of tree      *)
(* construction leaves Failed; and a call dispatched in AwaitingReconf     *)
(* whose reinitialisation succeeded leaves ReconfParams, whatever error    *)
(* its command then meets.  A call that fails before it is dispatched, on  *)
(* its arguments or in the wait for the lock, leaves the phase as it was.  *)
(***************************************************************************)
FailsUndispatched(t) ==
  /\ pc[t] \in { "idle", "lock" }
  /\ pc'[t] \in { "done", "out" }
  /\ cmd'[t] \in Cmds

C7_ErrorsKeepPhaseButCollaborators ==
  /\ [](\A t \in Threads :
          (Returned(t) /\ ret[t] # OK) =>
            \/ phase = phase0[t]
            \/ /\ phase = FS_CONTEXT_FAILED
               /\ ret[t] \in CollabErrors
               /\ LastCall(t) \in { "init_fs_context",
                                    "security_fs_context_alloc",
                                    "vfs_get_tree" }
            \/ /\ phase0[t] = FS_CONTEXT_AWAITING_RECONF
               /\ phase = FS_CONTEXT_RECONF_PARAMS
               /\ \E r \in ReinitCalls, c \in CommandCalls : calls[t] = r \o c)
  /\ [][\A t \in Threads :
          FailsUndispatched(t) => (ret'[t] # OK /\ phase' = phase)]_vars

\* tree construction failed
C7_Witness ==
  \E t \in Threads :
    /\ Returned(t)
    /\ cmd[t] = "fsconfig_cmd_create"
    /\ phase0[t] = FS_CONTEXT_CREATE_PARAMS
    /\ phase = FS_CONTEXT_FAILED
    /\ ret[t] \in CollabErrors

(***************************************************************************)
(* C8: at most one thread at a time is inside the dispatch of configure or *)
(* inside the pop of read, and that thread holds uapi_mutex.  On a live    *)
(* context every change of the phase and every change of the log happens   *)
(* in a step of the thread that holds the lock, so the phase transitions   *)
(* of one context are totally ordered.                                     *)
(***************************************************************************)
InDispatch == { "dispatch", "security", "switch", "get_tree", "unlock", "BUG" }

InPop == { "rpop", "runlock" }

HolderSteps ==
  \E t \in Threads :
    /\ mutex = t
    /\ pc[t] \in InDispatch \cup InPop
    /\ pc'[t] # pc[t]

UnderLock ==
  (fcState = "live" /\ fcState' = "live"
     /\ << phase, logVars >> # << phase', logVars' >>) => HolderSteps

C8_MutualExclusion ==
  /\ [](\A t \in Threads : pc[t] \in InDispatch \cup InPop => mutex = t)
  /\ [](\A t, u \in Threads :
          (pc[t] \in InDispatch \cup InPop /\ pc[u] \in InDispatch \cup InPop)
            => t = u)
  /\ [][UnderLock]_vars

\* one thread in the dispatch, another waiting to pop
C8_Witness ==
  \E t, u \in Threads :
    /\ pc[t] = "switch"
    /\ mutex = t
    /\ pc[u] = "rlock"

(***************************************************************************)
(* C10: only the wait for the lock can be interrupted.  A configure or     *)
(* read call interrupted in that wait returns -EINTR without having been   *)
(* dispatched, without the lock, and with the phase and the log (head,     *)
(* tail, slots) as they were.  A configure call that holds the lock leaves *)
(* the dispatch only through mutex_unlock(), and does not return -EINTR    *)
(* unless a collaborator it called returned it.                            *)
(***************************************************************************)
Interrupted(t) ==
  /\ pc[t] \in { "lock", "rlock" }
  /\ ~MutexFree
  /\ pc'[t] # pc[t]

InterruptedReturns(t) ==
  Interrupted(t) =>
    /\ pc'[t] = "out"
    /\ ret'[t] = EINTR
    /\ mutex' = mutex
    /\ mutex # t
    /\ UNCHANGED << phase, head, tail, buffer, need_free, calls, phase0 >>

RunsToCompletion(t) ==
  (pc[t] \in InDispatch /\ pc'[t] # pc[t]) =>
    /\ mutex = t
    /\ IF pc[t] = "unlock" THEN pc'[t] = "out" /\ mutex' = NoThread
       ELSE pc'[t] \in InDispatch /\ mutex' = t

C10_OnlyLockWaitCancellable ==
  /\ [][\A t \in Threads : InterruptedReturns(t) /\ RunsToCompletion(t)]_vars
  /\ [](\A t \in Threads :
          (Returned(t) /\ ret[t] = EINTR) => LastCall(t) # "none")
  /\ [](\A t \in Threads :
          (pc[t] = "out" /\ ret[t] = EINTR /\ cmd[t] # NoCmd) => mutex # t)

\* a call back from an interrupted wait, the lock with the other thread
C10_Witness ==
  \E t \in Threads :
    /\ pc[t] = "out"
    /\ ret[t] = EINTR
    /\ cmd[t] \in Cmds \cup { "read" }
    /\ mutex \notin { t, NoThread }
(***************************************************************************)
(* vfs_fsconfig() run alone from phase p with command c and key k: the     *)
(* phases it can leave and the values it can return, for every answer of   *)
(* the collaborators.                                                      *)
(***************************************************************************)
CommandOutcomes(p, c, k) ==
  LET s == Switch(p, c, k)
  IN  IF s \in SwitchErrors THEN { << p, s >> }
      ELSE IF s = "vfs_get_tree"
      THEN { << PhaseAfterTree(r), r >> : r \in Results(s) }
      ELSE IF s = "BUG" THEN {}
      ELSE { << p, r >> : r \in Results(s) }

Sequential(p, c, k) ==
  IF NeedsReinit(p)
  THEN { << PhaseAfterReinitError, r >> :
           r \in (Results("init_fs_context")
                    \cup Results("security_fs_context_alloc")) \ { OK } }
       \cup CommandOutcomes(PhaseAfterReinit, c, k)
  ELSE CommandOutcomes(p, c, k)

(***************************************************************************)
(* C9: with no signal delivered and fair scheduling, configure calls made  *)
(* concurrently on one descriptor (and reads beside them) all return.  The *)
(* result of each call and the phase it leaves are a result and a phase of *)
(* the same call run alone from the phase the previous holder of the lock  *)
(* left, so the final phase is that of the calls run one after the other   *)
(* in the order they took the lock.  A thread that took the lock, in       *)
(* configure or in read, releases it before it returns: no thread outside  *)
(* its critical section holds the lock.                                    *)
(***************************************************************************)
Serialized ==
  /\ (fcState = "live" /\ MutexFree) => phase = serial
  /\ \A t \in Threads :
       /\ pc[t] \in { "security", "switch", "get_tree", "unlock" } =>
            phase0[t] = serial
       /\ pc[t] = "dispatch" => phase = serial
       /\ Returned(t) =>
            << phase, ret[t] >> \in Sequential(phase0[t], cmd[t], key[t])

LockReleased ==
  \A t \in Threads : pc[t] \notin InDispatch \cup InPop => mutex # t

C9_ConcurrentConfigure ==
  /\ \A t \in Threads : pc[t] \in { "lock", "rlock" } ~> pc[t] = "idle"
  /\ \A t \in Threads : mutex = t ~> mutex # t
  /\ []Serialized
  /\ []LockReleased

\* one configure call is through its dispatch, the other waits for the lock
C9_Witness ==
  \E t, u \in Threads :
    /\ Returned(t)
    /\ cmd[t] \in ParamCmds
    /\ ret[t] = OK
    /\ pc[u] = "lock"
    /\ cmd[u] \in ParamCmds

(***************************************************************************)
(* What the claims about the log speak of.                                 *)
(***************************************************************************)
\* the lines in the ring, oldest first
RingLines ==
  [i \in 1..Pending(head, tail) |-> buffer[SlotOf((tail + i - 1) % CtrMod)]]

\* the slots outside the window from tail to head
FreeSlots ==
  Slots \ { SlotOf((tail + i - 1) % CtrMod) : i \in 1..Pending(head, tail) }

\* thread t makes the step of fscontext_read() that tests and pops
PopStep(t) == pc[t] = "rpop" /\ pc'[t] = "runlock"

\* thread t makes the step of fscontext_read() after the lock
CopyStep(t) == pc[t] = "rcopy" /\ pc'[t] = "out"

RingUnchanged == UNCHANGED << head, tail, buffer, need_free, pending >>

(***************************************************************************)
(* C11: the pop comes before the size test.  A read of a non-empty log     *)
(* takes the oldest line out of the ring whatever the size of the caller's *)
(* buffer: tail advances by one, the slot and its ownership flag are       *)
(* cleared.  When the line is longer than the buffer the read returns      *)
(* -EMSGSIZE, copies nothing and puts nothing back: the ring holds the     *)
(* lines not yet popped and no other, so no later read returns the line.   *)
(***************************************************************************)
PopsBeforeSizeTest(t) ==
  (PopStep(t) /\ head # tail) =>
    /\ rp'[t] = buffer[SlotOf(tail)]
    /\ tail' = (tail + 1) % CtrMod
    /\ head' = head
    /\ buffer' = [buffer EXCEPT ![SlotOf(tail)] = NoMsg]
    /\ SlotOf(tail) \notin need_free'
    /\ pending' = Tail(pending)

TooLargeIsLost(t) ==
  (CopyStep(t) /\ strlen(rp[t]) > rlen[t]) =>
    /\ ret'[t] = EMSGSIZE
    /\ ubuf'[t] = NoMsg
    /\ RingUnchanged

C11_TooLargeConsumed ==
  /\ [][\A t \in Threads : PopsBeforeSizeTest(t) /\ TooLargeIsLost(t)]_vars
  /\ [](RingLines = pending /\ \A i \in FreeSlots : buffer[i] = NoMsg)
  /\ [](\A t \in Threads :
          (pc[t] = "out" /\ ret[t] = EMSGSIZE) =>
            (strlen(rp[t]) > rlen[t] /\ ubuf[t] = NoMsg))

\* a line of two bytes read into a buffer of one: popped and not returned
C11_Witness ==
  \E t \in Threads :
    /\ pc[t] = "out"
    /\ ret[t] = EMSGSIZE
    /\ rp[t] = 2
    /\ rlen[t] = 1
    /\ head = tail
    /\ tail = 1
    /\ buffer = [i \in Slots |-> NoMsg]

(***************************************************************************)
(* C12: a read of an empty log (head = tail) returns -ENODATA and leaves   *)
(* head, tail, every slot and every ownership flag as they were.           *)
(***************************************************************************)
EmptyReadReturns(t) ==
  (PopStep(t) /\ head = tail) =>
    /\ ret'[t] = ENODATA
    /\ rp'[t] = NoMsg
    /\ RingUnchanged

EmptyReadLeaves(t) ==
  (ret[t] = ENODATA /\ pc'[t] # pc[t]) =>
    /\ RingUnchanged
    /\ pc[t] = "runlock" => pc'[t] = "out"

C12_EmptyRead ==
  /\ [][\A t \in Threads : EmptyReadReturns(t) /\ EmptyReadLeaves(t)]_vars
  /\ [](\A t \in Threads : ret[t] = ENODATA => ubuf[t] = NoMsg)

\* the log was read empty and is read again
C12_Witness ==
  \E t \in Threads :
    /\ pc[t] = "out"
    /\ cmd[t] = "read"
    /\ ret[t] = ENODATA
    /\ head = tail
    /\ tail = 2

(***************************************************************************)
(* C13: the log is a queue.  The ring holds the lines taken in and not yet *)
(* popped, in the order they were logged; every pop, of whichever thread,  *)
(* takes the oldest of them, so each line is popped once and in order; a   *)
(* read that succeeds returns the line it popped.  This holds across the   *)
(* wrap of head and tail.                                                  *)
(***************************************************************************)
PopsOldest(t) ==
  (PopStep(t) /\ pending # << >>) =>
    /\ rp'[t] = Head(pending)
    /\ pending' = Tail(pending)
    /\ rfree'[t] = Owned(Head(pending))

C13_PushOrder ==
  /\ [](RingLines = pending)
  /\ [][\A t \in Threads : PopsOldest(t)]_vars
  /\ [](\A t \in Threads :
          (pc[t] = "out" /\ cmd[t] = "read" /\ ret[t] = OK) =>
            (ubuf[t] = rp[t] /\ rp[t] \in Msgs /\ strlen(rp[t]) <= rlen[t]))
  /\ [](\A i \in DOMAIN pending :
          Owned(pending[i]) <=> SlotOf((tail + i - 1) % CtrMod) \in need_free)

\* lines 1 and 2, logged in this order, popped across the wrap of tail by
\* two threads; a third line is already waiting
C13_Witness ==
  \E t, u \in Threads :
    /\ pc[t] = "out" /\ ret[t] = OK /\ ubuf[t] = 1
    /\ pc[u] = "rcopy" /\ rp[u] = 2
    /\ tail = 1
    /\ pending = << 1 >>

(***************************************************************************)
(* C14: the number of unread lines, head - tail modulo the width of the    *)
(* counters, is at most the number of slots.  A line logged when the ring  *)
(* is full is dropped and the ring keeps the lines it has; a line logged   *)
(* otherwise goes in at head.  A read advances tail only when tail is not  *)
(* head, and then by one.                                                  *)
(***************************************************************************)
Logs == logged' = logged + 1

DropsWhenFull ==
  /\ (Logs /\ Pending(head, tail) = logsize) => RingUnchanged
  /\ (Logs /\ Pending(head, tail) < logsize) =>
       /\ head' = (head + 1) % CtrMod
       /\ tail' = tail
       /\ Len(pending') = Len(pending) + 1
       /\ \A i \in DOMAIN pending : pending'[i] = pending[i]

TailBehindHead ==
  tail' # tail =>
    /\ head # tail
    /\ head' = head
    /\ Pending(head', tail') = Pending(head, tail) - 1

C14_Capacity ==
  /\ [](Pending(head, tail) \in 0..logsize)
  /\ [](Len(pending) = Pending(head, tail))
  /\ [][DropsWhenFull /\ TailBehindHead]_vars

\* three lines logged and none read: the first two are kept
C14_Witness ==
  /\ logged = logsize + 1
  /\ tail = 0
  /\ head = logsize
  /\ pending = << 1, 2 >>
  /\ buffer = [i \in Slots |-> i + 1]

(***************************************************************************)
(* Configure calls followed with their arguments (SpecArgs).               *)
(***************************************************************************)
\* the call of t is one whose arguments are on record
Followed(t) == args[t] # NoArgs

\* what each command takes, as the interface states it
TakesKey(c) == c \in ParamCmds \cup PathCmds
TakesValue(c) ==
  c \in { "fsconfig_set_string", "fsconfig_set_binary",
          "fsconfig_set_path", "fsconfig_set_path_empty" }
AuxFits(c, aux) ==
  CASE c = "fsconfig_set_binary" -> aux \in 1..1048576
    [] c \in { "fsconfig_set_path", "fsconfig_set_path_empty" } ->
         aux = AT_FDCWD \/ aux >= 0
    [] c = "fsconfig_set_fd" -> aux >= 0
    [] OTHER -> aux = 0

\* a validation error: unknown command, or key, value or aux not of the
\* command's shape
Malformed(c, a) ==
  \/ c \notin KnownCmds
  \/ (a.key # NoKey) # TakesKey(c)
  \/ a.hasValue # TakesValue(c)
  \/ ~AuxFits(c, a.aux)

\* the step in which thread t makes a followed call that ends at entry
EntryFailure(t) ==
  /\ pc[t] = "idle"
  /\ pc'[t] = "done"
  /\ Followed(t)'

\* C15: a configure call with a validation error (unknown command, key,
\* value or aux not of the command's shape, set-binary length outside
\* 1..1048576) returns invalid-argument or unsupported-operation whatever
\* its descriptor is, never the error of resolving the descriptor or of a
\* copy; it takes no file reference, owns no buffer, takes no lock and
\* leaves context, phase, log and file as they were.
C15_ValidationFirst ==
  /\ [][\A t \in Threads :
          (EntryFailure(t) /\ Malformed(cmd'[t], args'[t])) =>
            /\ ret'[t] \in { EINVAL, EOPNOTSUPP }
            /\ (args'[t].fd >= 0 /\ cmd'[t] \notin KnownCmds)
                 => ret'[t] = EOPNOTSUPP
            /\ (cmd'[t] \in KnownCmds) => ret'[t] = EINVAL
            /\ ~fref'[t] /\ bufs'[t] = {}
            /\ UNCHANGED << fcVars, logVars, fileVars >>]_vars
  \* and no call with a validation error is ever past the entry
  /\ [](\A t \in Threads :
          (Followed(t) /\ Malformed(cmd[t], args[t])) => pc[t] = "done")

\* a set-binary call of length 1048577 on a descriptor that is not open has
\* returned invalid-argument, not bad-descriptor
C15_Witness ==
  \E t \in Threads :
    /\ pc[t] = "done" /\ Followed(t)
    /\ cmd[t] = "fsconfig_set_binary"
    /\ args[t].aux = 1048577 /\ args[t].key # NoKey /\ args[t].hasValue
    /\ args[t].fd = FdClosed
    /\ ret[t] = EINVAL

\* the descriptor is not in the descriptor table
NotOpen(fd) == fd = FdClosed \/ (fd = FdCtx /\ ~fdOpen)
\* the descriptor is open on a file of another kind
OtherKind(fd) == fd = FdOther

\* the step in which t makes a followed call that passes validation and ends
\* at entry, and the descriptor it passes
WellFormedFailure(t) ==
  /\ EntryFailure(t)
  /\ ~Malformed(cmd'[t], args'[t])
  /\ args'[t].fd >= 0
FdPassed(t) == args'[t].fd

\* such a call took no reference, owns no buffer and changed nothing
TouchesNothing(t) ==
  /\ ~fref'[t] /\ bufs'[t] = {}
  /\ UNCHANGED << fcVars, logVars, fileVars >>

PathCall(t) ==
  /\ pc[t] = "idle"
  /\ Followed(t)'
  /\ cmd'[t] \in PathCmds
  /\ ~Malformed(cmd'[t], args'[t])
  /\ args'[t].fd >= 0

\* the descriptor is bound to a context and the key could be copied
ReachesSecondSwitch(t) ==
  /\ FdPassed(t) = FdCtx /\ fdOpen
  /\ args'[t].fault # "key"

\* C17: a configure call of set-path, set-path-empty or set-fd that passes
\* validation ends at the entry, in every phase: it returns
\* unsupported-operation when its descriptor is bound to a context and its
\* key could be copied (else the error of the descriptor or of the copy),
\* takes no lock and leaves the phase as it was; no call is ever past the
\* entry with one of these commands, and BUG() is never reached.
C17_PathsUnsupported ==
  /\ [][\A t \in Threads :
          PathCall(t) =>
            /\ pc'[t] = "done"
            /\ ReachesSecondSwitch(t) => ret'[t] = EOPNOTSUPP
            /\ ret'[t] \in { EOPNOTSUPP, EBADF, EINVAL, EFAULT }
            /\ mutex' = mutex /\ phase' = phase
            /\ TouchesNothing(t)]_vars
  /\ [](\A t \in Threads :
          /\ pc[t] # "BUG"
          /\ pc[t] \notin { "idle", "done" } => cmd[t] \notin PathCmds)

\* a set-path call has returned unsupported-operation while another thread
\* holds the lock in FS_CONTEXT_CREATING
C17_Witness ==
  \E t \in Threads :
    /\ pc[t] = "done" /\ Followed(t)
    /\ cmd[t] = "fsconfig_set_path"
    /\ ret[t] = EOPNOTSUPP
    /\ phase = FS_CONTEXT_CREATING
    /\ mutex \notin { t, NoThread }

(***************************************************************************)
(* The life of the context.                                                *)
(***************************************************************************)
\* the references on the struct file: the descriptor table's and one for
\* each call that resolved the descriptor
FileHolders == (IF fdOpen THEN 1 ELSE 0) + Cardinality({ t \in Threads : fref[t] })

\* the step in which fsopen() or fspick() constructs a context and fails
\* before the descriptor is bound
BindFailure ==
  /\ fcState = "none" /\ fcState' = "freed"
  /\ ~fdOpen'
  /\ \E t \in Threads :
       pc[t] = "idle" /\ pc'[t] = "done" /\ ret'[t] = ENOMEM

\* the step in which the last reference on the file of a closed descriptor
\* is dropped
LastFput ==
  /\ fcState = "live" /\ fcState' = "freed"
  /\ fcount = 1 /\ fcount' = 0
  /\ ~fdOpen'

\* C18: a context that fsopen() or fspick() constructed and could not bind
\* to a descriptor has been put exactly once when the call returns; a
\* context bound to a descriptor is not put while the descriptor or a call
\* holds its file, and is put exactly once, with the last reference on the
\* file of the closed descriptor.  No context is put twice and none is
\* left without a holder.
C18_ReleasedOnce ==
  /\ [](/\ usage >= 0
        /\ fcState = "none" => (puts = 0 /\ usage = 0 /\ ~fdOpen)
        /\ fcState = "live"
             => (puts = 0 /\ usage = 1 /\ fcount >= 1 /\ fcount = FileHolders)
        /\ fcState = "freed"
             => (puts = 1 /\ usage = 0 /\ ~fdOpen /\ fcount = 0))
  /\ [][/\ puts' # puts => (BindFailure \/ LastFput)
        /\ (fcState = "none" /\ fcState' = "live")
             => (fdOpen' /\ \E t \in Threads :
                              pc[t] = "idle" /\ pc'[t] = "done" /\ ret'[t] = OK)]_vars

\* fsopen() or fspick() has returned -ENOMEM after it constructed a context
\* that was never bound: the context is freed, put once
C18_Witness ==
  /\ fcState = "freed" /\ puts = 1 /\ usage = 0
  /\ fcount = 0 /\ ~fdOpen
  /\ \E t \in Threads :
       pc[t] = "done" /\ cmd[t] = NoCmd /\ ret[t] = ENOMEM

(***************************************************************************)
(* The phases a context goes through.                                      *)
(***************************************************************************)
\* thread t holds the lock inside the creation of fsconfig_cmd_create,
\* between the store of FS_CONTEXT_CREATING and the return of vfs_get_tree()
InsideCreate(t) ==
  /\ mutex = t
  /\ pc[t] = "get_tree"
  /\ cmd[t] = "fsconfig_cmd_create"

\* C19: the phase is FS_CONTEXT_CREATING only while a thread holds the lock
\* inside the creation; whenever the lock is free the phase is another one;
\* no call to vfs_fsconfig() is entered in FS_CONTEXT_CREATING, so no caller
\* is refused because of this phase.
C19_CreatingUnderLock ==
  /\ phase = FS_CONTEXT_CREATING => \E t \in Threads : InsideCreate(t)
  /\ MutexFree => phase # FS_CONTEXT_CREATING
  /\ \A t \in Threads : phase0[t] # FS_CONTEXT_CREATING

\* one thread is inside the creation, the phase is FS_CONTEXT_CREATING, and
\* another thread's configure call waits for the lock
C19_Witness ==
  \E t, u \in Threads :
    /\ t # u
    /\ InsideCreate(t)
    /\ phase = FS_CONTEXT_CREATING
    /\ pc[u] = "lock" /\ cmd[u] \in KnownCmds

\* the phases of a context made for a new mount
MountPhases ==
  { FS_CONTEXT_CREATE_PARAMS, FS_CONTEXT_CREATING, FS_CONTEXT_AWAITING_MOUNT,
    FS_CONTEXT_FAILED }

====
